---- MODULE Spec2Model ----
(***************************************************************************)
(* Tournament scoring and rating engine of the bowling league portal:      *)
(* the document-store TournamentsService (admission with handicap, score   *)
(* entry, status change with placement resolution, applications) over the  *)
(* collections seasons, tournaments, tournamentParticipations,             *)
(* tournamentApplications and players, and the season leaderboard of the   *)
(* SeasonsService.                                                         *)
(***************************************************************************)
EXTENDS Integers, Sequences, FiniteSets, Bags, TLC

VARIABLES
    seasons,         \* collection 'seasons': id -> [ratingConfig]
    tournaments,     \* collection 'tournaments': id -> [seasonId, date, status, counters]
    participations,  \* collection 'tournamentParticipations': doc id -> document
    resolutions,     \* history: batch commits of the resolver per tournament (saturating)
    count,           \* input of the game-count policy
    games,           \* results of the three copies of the game-count policy
    players,         \* collection 'players': the ids of the stored players
    applications,    \* collection 'tournamentApplications': doc id -> document
    inflight,        \* bag of admin admissions that passed their checks and have not written yet
    response         \* the leaderboard response a client holds since the last write

vars == <<seasons, tournaments, participations, resolutions, count, games,
          players, applications, inflight, response>>

(***************************************************************************)
(* Bounds of the model.                                                    *)
(***************************************************************************)
MaxPlayers == 2
MaxCounted == 2
MaxCount == 20
MaxHistory == 3
MaxRequests == 2
MaxTournamentCount == 2

(***************************************************************************)
(* Nullable values: null is the empty tuple, a value v is <<v>>.           *)
(***************************************************************************)
Null == << >>
Some(v) == <<v>>
OrZero(x) == IF x = Null THEN 0 ELSE x[1]

RECURSIVE Sum(_)
Sum(s) == IF Len(s) = 0 THEN 0 ELSE s[1] + Sum(Tail(s))

Min2(a, b) == IF a <= b THEN a ELSE b
Max2(a, b) == IF a >= b THEN a ELSE b

\* Math.round: the nearest integer, a half rounded towards +infinity;
\* the argument is the fraction num / den with den > 0.
MathRound(num, den) == (2 * num + den) \div (2 * den)

\* The ids of a query result in document-id order.
RECURSIVE IdSeq(_)
IdSeq(S) ==
    IF S = {} THEN << >>
    ELSE LET m == CHOOSE x \in S : \A y \in S : x <= y
         IN <<m>> \o IdSeq(S \ {m})

UPCOMING == "UPCOMING"
ONGOING == "ONGOING"
COMPLETED == "COMPLETED"
TournamentStatus == {UPCOMING, ONGOING, COMPLETED}

Players == 1..MaxPlayers

(***************************************************************************)
(* Game-count policy (three copies).                                       *)
(***************************************************************************)
calculateNumberOfGamesStrict(participantCount) ==
    IF participantCount < 8 THEN 6
    ELSE IF participantCount < 12 THEN 7
    ELSE 8

calculateNumberOfGames(participantCount) ==
    IF participantCount <= 8 THEN 6
    ELSE IF participantCount <= 12 THEN 7
    ELSE 8

calculateNumberOfGamesPrisma(participantCount) ==
    IF participantCount <= 8 THEN 6
    ELSE IF participantCount <= 12 THEN 7
    ELSE 8

calculateNumberOfGamesWeb(participantCount) ==
    IF participantCount <= 8 THEN 6
    ELSE IF participantCount <= 12 THEN 7
    ELSE 8

(***************************************************************************)
(* Handicap calculator.                                                    *)
(***************************************************************************)
\* The documents of a player in a season, most recent tournament first
\* (orderBy tournamentDate desc; documents of equal date by id, descending).
RECURSIVE ByDateDesc(_)
ByDateDesc(S) ==
    IF S = {} THEN << >>
    ELSE LET m == CHOOSE x \in S : \A y \in S :
                      \/ participations[x].tournamentDate > participations[y].tournamentDate
                      \/ /\ participations[x].tournamentDate = participations[y].tournamentDate
                         /\ x >= y
         IN <<m>> \o ByDateDesc(S \ {m})

\* slice(0, n) of a sequence.
Slice(s, n) == SubSeq(s, 1, Min2(n, Len(s)))

\* The scores of one result that count: the first 6 entries that are > 0.
PlayedScores(gameScores) ==
    SelectSeq(Slice(gameScores, 6), LAMBDA score : score > 0)

handicapFromTotalsUnclamped(totalScore, totalGames) ==
    MathRound(180 * totalGames - totalScore, 2 * totalGames)

\* Math.max(-15, Math.min(15, Math.round((180 - average) / 2))) with
\* average = totalScore / totalGames.
handicapFromTotals(totalScore, totalGames) ==
    Max2(-15, Min2(15, MathRound(180 * totalGames - totalScore, 2 * totalGames)))

\* The results calculateHandicap selects: of completed tournaments of the
\* season, with a gameScores array, the two most recent.
selectedParticipations(playerId, seasonId) ==
    LET completedTournamentIds ==
            {t \in DOMAIN tournaments :
                /\ tournaments[t].seasonId = seasonId
                /\ tournaments[t].status = COMPLETED}
        docs == ByDateDesc({d \in DOMAIN participations :
                    /\ participations[d].playerId = playerId
                    /\ participations[d].seasonId = seasonId})
        kept == SelectSeq(docs, LAMBDA d :
                    /\ participations[d].tournamentId \in completedTournamentIds
                    /\ participations[d].gameScores # Null)
    IN Slice(kept, 2)

\* The played scores of the selected results, in one sequence.
RECURSIVE AllPlayed(_)
AllPlayed(docs) ==
    IF Len(docs) = 0 THEN << >>
    ELSE PlayedScores(participations[docs[1]].gameScores[1]) \o AllPlayed(Tail(docs))

enoughResultsOne(selected) == Len(selected) >= 1

\* The negation of `participations.length < 2`.
enoughResults(selected) == Len(selected) >= 2

calculateHandicap(playerId, seasonId) ==
    LET completedTournamentIds ==
            {t \in DOMAIN tournaments :
                /\ tournaments[t].seasonId = seasonId
                /\ tournaments[t].status = COMPLETED}
        selected == selectedParticipations(playerId, seasonId)
        totalScore == Sum(AllPlayed(selected))
        totalGames == Len(AllPlayed(selected))
    IN IF completedTournamentIds = {} THEN Null
       ELSE IF ~enoughResults(selected) THEN Null
       ELSE IF totalGames = 0 THEN Null
       ELSE Some(handicapFromTotals(totalScore, totalGames))

(***************************************************************************)
(* Placement resolver.                                                     *)
(***************************************************************************)
\* p.finalsScores && Array.isArray(p.finalsScores) && p.finalsScores.length > 0
HasFinalsScores(p) == p.finalsScores # Null /\ Len(p.finalsScores[1]) > 0

\* (p.totalScore || 0) + (p.handicap || 0) * numberOfGames
qualificationTotal(p, numberOfGames) ==
    OrZero(p.totalScore) + OrZero(p.handicap) * numberOfGames

compareIgnoringFinals(a, b, hasFinalsResults, numberOfGames) ==
    qualificationTotal(b, numberOfGames) - qualificationTotal(a, numberOfGames)

compareByStoredPosition(a, b, hasFinalsResults, numberOfGames) ==
    OrZero(b.finalPosition) - OrZero(a.finalPosition)

\* The comparator handed to sort: negative when a comes first.
compare(a, b, hasFinalsResults, numberOfGames) ==
    IF hasFinalsResults
    THEN IF HasFinalsScores(a) /\ HasFinalsScores(b)
         THEN Sum(b.finalsScores[1]) - Sum(a.finalsScores[1])
         ELSE IF HasFinalsScores(a) THEN -1
         ELSE IF HasFinalsScores(b) THEN 1
         ELSE qualificationTotal(b, numberOfGames) - qualificationTotal(a, numberOfGames)
    ELSE qualificationTotal(b, numberOfGames) - qualificationTotal(a, numberOfGames)

InsertSortedBeforeEqual(docs, sorted, x, hasFinalsResults, numberOfGames) ==
    LET before == {i \in 1..Len(sorted) :
                      compare(docs[x], docs[sorted[i]], hasFinalsResults, numberOfGames) <= 0}
        k == IF before = {} THEN Len(sorted) + 1
             ELSE CHOOSE i \in before : \A j \in before : i <= j
    IN SubSeq(sorted, 1, k - 1) \o <<x>> \o SubSeq(sorted, k, Len(sorted))

\* Array.prototype.sort on a short array: a stable insertion sort. The
\* element x goes before the first element it compares less than.
InsertSorted(docs, sorted, x, hasFinalsResults, numberOfGames) ==
    LET before == {i \in 1..Len(sorted) :
                      compare(docs[x], docs[sorted[i]], hasFinalsResults, numberOfGames) < 0}
        k == IF before = {} THEN Len(sorted) + 1
             ELSE CHOOSE i \in before : \A j \in before : i <= j
    IN SubSeq(sorted, 1, k - 1) \o <<x>> \o SubSeq(sorted, k, Len(sorted))

RECURSIVE SortInto(_, _, _, _, _)
SortInto(docs, sorted, rest, hasFinalsResults, numberOfGames) ==
    IF Len(rest) = 0 THEN sorted
    ELSE SortInto(docs,
                  InsertSorted(docs, sorted, rest[1], hasFinalsResults, numberOfGames),
                  Tail(rest), hasFinalsResults, numberOfGames)

\* The ids of the tournament's documents as the query returns them.
participationsOf(docs, tournamentId) ==
    IdSeq({d \in DOMAIN docs : docs[d].tournamentId = tournamentId})

unsortedParticipations(docs, tournamentId) == participationsOf(docs, tournamentId)

\* sortedParticipations of calculateAndSaveRatingPoints (as document ids).
sortedParticipations(docs, tournamentId) ==
    LET ids == participationsOf(docs, tournamentId)
        numberOfGames == calculateNumberOfGames(Len(ids))
        hasFinalsResults == \E i \in 1..Len(ids) : HasFinalsScores(docs[ids[i]])
    IN SortInto(docs, << >>, ids, hasFinalsResults, numberOfGames)

ratingPointsOrNull(pointsDistribution, position) ==
    IF ToString(position) \in DOMAIN pointsDistribution
    THEN Some(pointsDistribution[ToString(position)])
    ELSE Null

\* pointsDistribution[position.toString()] || 0, as the stored field.
ratingPoints(pointsDistribution, position) ==
    IF ToString(position) \in DOMAIN pointsDistribution
    THEN Some(pointsDistribution[ToString(position)])
    ELSE Some(0)

\* Whether calculateAndSaveRatingPoints reaches its batch commit.
resolverCommits(docs, tournamentId, ratingConfig) ==
    /\ ratingConfig # Null
    /\ Len(participationsOf(docs, tournamentId)) # 0

positionWriteDroppingHandicap(doc, position, pointsDistribution) ==
    [doc EXCEPT !.finalPosition = Some(position),
                !.ratingPointsEarned = ratingPoints(pointsDistribution, position),
                !.handicap = Null]

\* The batch update of one document.
positionWrite(doc, position, pointsDistribution) ==
    [doc EXCEPT !.finalPosition = Some(position),
                !.ratingPointsEarned = ratingPoints(pointsDistribution, position)]

\* The collection after calculateAndSaveRatingPoints(tournamentId, tournament).
calculateAndSaveRatingPoints(docs, tournamentId, ratingConfig) ==
    IF ~resolverCommits(docs, tournamentId, ratingConfig) THEN docs
    ELSE LET sorted == sortedParticipations(docs, tournamentId)
             index(d) == CHOOSE i \in 1..Len(sorted) : sorted[i] = d
         IN [d \in DOMAIN docs |->
                IF docs[d].tournamentId = tournamentId
                THEN positionWrite(docs[d], index(d), ratingConfig[1])
                ELSE docs[d]]

(***************************************************************************)
(* Request handlers of TournamentsService (document store).                *)
(***************************************************************************)
ParticipationIds == 1..MaxPlayers

\* The admin branch of applyToTournament: the participation is created at
\* once, with the handicap computed now, under a freshly generated id.
\* The participation document that an admission stores.
newParticipation(tournamentId, playerId, handicap) ==
    [tournamentId |-> tournamentId,
     playerId |-> playerId,
     seasonId |-> tournaments[tournamentId].seasonId,
     tournamentDate |-> tournaments[tournamentId].date,
     handicap |-> handicap,
     gameScores |-> Null,
     totalScore |-> Null,
     finalsScores |-> Null,
     finalPosition |-> Null,
     ratingPointsEarned |-> Null]

\* tournament.maxParticipants && participationCount >= maxParticipants
isFull(tournamentId) ==
    IF tournaments[tournamentId].maxParticipants = Null THEN FALSE
    ELSE tournaments[tournamentId].participationCount >= tournaments[tournamentId].maxParticipants[1]

\* The checks applyToTournament makes before it writes anything.
admissionChecks(tournamentId, playerId) ==
    /\ tournamentId \in DOMAIN tournaments
    /\ playerId \in players
    /\ ~isFull(tournamentId)
    /\ ~\E a \in DOMAIN applications :
            /\ applications[a].tournamentId = tournamentId
            /\ applications[a].playerId = playerId
    /\ ~\E d \in DOMAIN participations :
            /\ participations[d].tournamentId = tournamentId
            /\ participations[d].playerId = playerId

applyToTournament(tournamentId, playerId) ==
    /\ admissionChecks(tournamentId, playerId)
    /\ \E participationId \in ParticipationIds \ DOMAIN participations :
          participations' = (participationId :>
              newParticipation(tournamentId, playerId,
                  calculateHandicap(playerId, tournaments[tournamentId].seasonId))) @@ participations
    /\ tournaments' = [tournaments EXCEPT ![tournamentId].participationCount = @ + 1]
    /\ UNCHANGED <<seasons, resolutions, count, games, players, applications, inflight>>

\* applyToTournament by an admin, as far as its checks and the handicap
\* it computes: the request has read the database and written nothing.
\* At most MaxRequests such requests are under way at a time.
applyToTournamentReads(tournamentId, playerId) ==
    /\ BagCardinality(inflight) < MaxRequests
    /\ admissionChecks(tournamentId, playerId)
    /\ inflight' = inflight (+) SetToBag(
          {[tournamentId |-> tournamentId,
            playerId |-> playerId,
            handicap |-> calculateHandicap(playerId, tournaments[tournamentId].seasonId)]})
    /\ UNCHANGED <<seasons, tournaments, participations, resolutions, count, games,
                   players, applications>>

\* The rest of that request: the participation is stored under a fresh id
\* and the tournament's participationCount is incremented.
applyToTournamentWrites(r) ==
    /\ BagIn(r, inflight)
    /\ \E participationId \in ParticipationIds \ DOMAIN participations :
          participations' = (participationId :>
              newParticipation(r.tournamentId, r.playerId, r.handicap)) @@ participations
    /\ tournaments' = [tournaments EXCEPT ![r.tournamentId].participationCount = @ + 1]
    /\ inflight' = inflight (-) SetToBag({r})
    /\ UNCHANGED <<seasons, resolutions, count, games, players, applications>>

PENDING == "PENDING"
APPROVED == "APPROVED"
REJECTED == "REJECTED"

ApplicationIds == 1..MaxPlayers

\* applyToTournament by a player: the application is stored as PENDING.
applyToTournamentAsPlayer(tournamentId, playerId) ==
    /\ admissionChecks(tournamentId, playerId)
    /\ \E applicationId \in ApplicationIds \ DOMAIN applications :
          applications' = (applicationId :>
              [tournamentId |-> tournamentId,
               playerId |-> playerId,
               status |-> PENDING]) @@ applications
    /\ tournaments' = [tournaments EXCEPT ![tournamentId].pendingApplicationCount = @ + 1]
    /\ UNCHANGED <<seasons, participations, resolutions, count, games, players, inflight>>

\* One transaction: the application becomes APPROVED, the participation is
\* stored with the handicap computed now, both counters are adjusted.
approveApplication(applicationId) ==
    /\ applicationId \in DOMAIN applications
    /\ applications[applicationId].status = PENDING
    /\ ~isFull(applications[applicationId].tournamentId)
    /\ LET application == applications[applicationId]
           tournamentId == application.tournamentId
           handicap == calculateHandicap(application.playerId, tournaments[tournamentId].seasonId)
       IN /\ \E participationId \in ParticipationIds \ DOMAIN participations :
                participations' = (participationId :>
                    newParticipation(tournamentId, application.playerId, handicap)) @@ participations
          /\ tournaments' = [tournaments EXCEPT
                ![tournamentId].participationCount = @ + 1,
                ![tournamentId].pendingApplicationCount = @ - 1]
    /\ applications' = [applications EXCEPT ![applicationId].status = APPROVED]
    /\ UNCHANGED <<seasons, resolutions, count, games, players, inflight>>

rejectApplication(applicationId) ==
    /\ applicationId \in DOMAIN applications
    /\ applications[applicationId].status = PENDING
    /\ applications' = [applications EXCEPT ![applicationId].status = REJECTED]
    /\ tournaments' = [tournaments EXCEPT
          ![applications[applicationId].tournamentId].pendingApplicationCount = @ - 1]
    /\ UNCHANGED <<seasons, participations, resolutions, count, games, players, inflight>>

\* rejectApplication as far as its reads: the application is stored and
\* PENDING; nothing is written yet. The handler runs in no transaction.
rejectApplicationReads(applicationId) ==
    /\ BagCardinality(inflight) < MaxRequests
    /\ applicationId \in DOMAIN applications
    /\ applications[applicationId].status = PENDING
    /\ inflight' = inflight (+) SetToBag(
          {[applicationId |-> applicationId,
            tournamentId |-> applications[applicationId].tournamentId]})
    /\ UNCHANGED <<seasons, tournaments, participations, resolutions, count, games,
                   players, applications>>

\* The rest of that request: the status is set to REJECTED whatever it is
\* by now, and the tournament's pendingApplicationCount is decremented.
\* The update of a document deleted in the meantime fails, and the request
\* ends there.
rejectApplicationWrites(r) ==
    /\ BagIn(r, inflight)
    /\ inflight' = inflight (-) SetToBag({r})
    /\ IF r.applicationId \in DOMAIN applications
       THEN /\ applications' = [applications EXCEPT ![r.applicationId].status = REJECTED]
            /\ tournaments' = [tournaments EXCEPT
                  ![r.tournamentId].pendingApplicationCount = @ - 1]
       ELSE UNCHANGED <<applications, tournaments>>
    /\ UNCHANGED <<seasons, participations, resolutions, count, games, players>>

(***************************************************************************)
(* The relational backend's admission handlers. Its tables hold no         *)
(* counters: the number of participations is counted when needed. The      *)
(* participation is created from tournamentId and playerId alone, so every *)
(* other column, handicap included, keeps its default.                     *)
(***************************************************************************)
isFullPrisma(tournamentId) ==
    IF tournaments[tournamentId].maxParticipants = Null THEN FALSE
    ELSE Cardinality({d \in DOMAIN participations :
            participations[d].tournamentId = tournamentId})
            >= tournaments[tournamentId].maxParticipants[1]

admissionChecksPrisma(tournamentId, playerId) ==
    /\ tournamentId \in DOMAIN tournaments
    /\ playerId \in players
    /\ ~isFullPrisma(tournamentId)
    /\ ~\E a \in DOMAIN applications :
            /\ applications[a].tournamentId = tournamentId
            /\ applications[a].playerId = playerId
    /\ ~\E d \in DOMAIN participations :
            /\ participations[d].tournamentId = tournamentId
            /\ participations[d].playerId = playerId

applyToTournamentPrisma(tournamentId, playerId) ==
    /\ admissionChecksPrisma(tournamentId, playerId)
    /\ \E participationId \in ParticipationIds \ DOMAIN participations :
          participations' = (participationId :>
              newParticipation(tournamentId, playerId, Null)) @@ participations
    /\ UNCHANGED <<seasons, tournaments, resolutions, count, games, players,
                   applications, inflight>>

applyToTournamentPrismaAsPlayer(tournamentId, playerId) ==
    /\ admissionChecksPrisma(tournamentId, playerId)
    /\ \E applicationId \in ApplicationIds \ DOMAIN applications :
          applications' = (applicationId :>
              [tournamentId |-> tournamentId,
               playerId |-> playerId,
               status |-> PENDING]) @@ applications
    /\ UNCHANGED <<seasons, tournaments, participations, resolutions, count, games,
                   players, inflight>>

approveApplicationPrisma(applicationId) ==
    /\ applicationId \in DOMAIN applications
    /\ applications[applicationId].status = PENDING
    /\ ~isFullPrisma(applications[applicationId].tournamentId)
    /\ \E participationId \in ParticipationIds \ DOMAIN participations :
          participations' = (participationId :>
              newParticipation(applications[applicationId].tournamentId,
                               applications[applicationId].playerId, Null)) @@ participations
    /\ applications' = [applications EXCEPT ![applicationId].status = APPROVED]
    /\ UNCHANGED <<seasons, tournaments, resolutions, count, games, players, inflight>>

deletePlayerCascadeKeepingCounts(playerId) ==
    /\ playerId \in players
    /\ participations' = [d \in {e \in DOMAIN participations :
                                    participations[e].playerId # playerId} |-> participations[d]]
    /\ applications' = [a \in {b \in DOMAIN applications :
                                  applications[b].playerId # playerId} |-> applications[a]]
    /\ players' = players \ {playerId}
    /\ UNCHANGED <<seasons, tournaments, resolutions, count, games, inflight>>

\* PlayersService.remove: the player's participations and applications are
\* deleted in one batch with the player, and the counters are decreased by
\* the numbers deleted.
deletePlayerCascade(playerId) ==
    /\ playerId \in players
    /\ participations' = [d \in {e \in DOMAIN participations :
                                    participations[e].playerId # playerId} |-> participations[d]]
    /\ applications' = [a \in {b \in DOMAIN applications :
                                  applications[b].playerId # playerId} |-> applications[a]]
    /\ tournaments' = [t \in DOMAIN tournaments |->
          [tournaments[t] EXCEPT
              !.participationCount = @ - Cardinality({d \in DOMAIN participations :
                    /\ participations[d].playerId = playerId
                    /\ participations[d].tournamentId = t}),
              !.pendingApplicationCount = @ - Cardinality({a \in DOMAIN applications :
                    /\ applications[a].playerId = playerId
                    /\ applications[a].tournamentId = t
                    /\ applications[a].status = PENDING})]]
    /\ players' = players \ {playerId}
    /\ UNCHANGED <<seasons, resolutions, count, games, inflight>>

removeParticipant(tournamentId, participationId) ==
    /\ tournamentId \in DOMAIN tournaments
    /\ participationId \in DOMAIN participations
    /\ participations[participationId].tournamentId = tournamentId
    /\ participations' = [d \in DOMAIN participations \ {participationId} |-> participations[d]]
    /\ tournaments' = [tournaments EXCEPT ![tournamentId].participationCount = @ - 1]
    /\ UNCHANGED <<seasons, resolutions, count, games, players, applications, inflight>>

firestoreUpdateDataClearingPosition(updateData) ==
    IF "gameScores" \in DOMAIN updateData /\ updateData.gameScores # Null
    THEN [f \in DOMAIN updateData \cup {"totalScore", "finalPosition"} |->
             IF f = "totalScore" THEN Some(Sum(updateData.gameScores[1]))
             ELSE IF f = "finalPosition" THEN Null
             ELSE updateData[f]]
    ELSE updateData

\* { ...updateData } with totalScore derived when gameScores is given.
firestoreUpdateData(updateData) ==
    IF "gameScores" \in DOMAIN updateData /\ updateData.gameScores # Null
    THEN [f \in DOMAIN updateData \cup {"totalScore"} |->
             IF f = "totalScore" THEN Some(Sum(updateData.gameScores[1]))
             ELSE updateData[f]]
    ELSE updateData

\* update(): the fields given replace the stored ones, the others stay.
updatedDocument(doc, data) ==
    [f \in DOMAIN doc |-> IF f \in DOMAIN data THEN data[f] ELSE doc[f]]

updateParticipationResult(tournamentId, participationId, updateData) ==
    /\ tournamentId \in DOMAIN tournaments
    /\ participationId \in DOMAIN participations
    /\ participations[participationId].tournamentId = tournamentId
    /\ participations' = [participations EXCEPT ![participationId] =
            updatedDocument(@, firestoreUpdateData(updateData))]
    /\ UNCHANGED <<seasons, tournaments, resolutions, count, games, players, applications, inflight>>

updateStatus(id, status) ==
    /\ id \in DOMAIN tournaments
    /\ LET ratingConfig == seasons[tournaments[id].seasonId].ratingConfig
       IN IF status = COMPLETED
          THEN /\ participations' = calculateAndSaveRatingPoints(participations, id, ratingConfig)
               /\ resolutions' = [resolutions EXCEPT ![id] =
                      IF resolverCommits(participations, id, ratingConfig)
                      THEN Min2(@ + 1, MaxCounted) ELSE @]
          ELSE UNCHANGED <<participations, resolutions>>
    /\ tournaments' = [tournaments EXCEPT ![id].status = status]
    /\ UNCHANGED <<seasons, count, games, players, applications, inflight>>

(***************************************************************************)
(* Season leaderboard (SeasonsService.getLeaderboard).                     *)
(***************************************************************************)
\* The leaderboard that answers a second call from what the first returned.
getLeaderboardFromCache(seasonId) ==
    IF response # Null /\ response.seasonId = seasonId
    THEN [response.result EXCEPT !.totalPlayers = @ + 1]
    ELSE [outcome |-> "NotFound", leaderboard |-> << >>, totalPlayers |-> 0]

ratedParticipationsAnyStatus(seasonId) ==
    SelectSeq(IdSeq({d \in DOMAIN participations : participations[d].seasonId = seasonId}),
              LAMBDA d : /\ participations[d].ratingPointsEarned # Null
                         /\ participations[d].playerId \in players)

\* The participations the aggregation loop accumulates, in query order:
\* of the season, in a completed tournament, with ratingPointsEarned not
\* null, of a player that is still stored.
ratedParticipations(seasonId) ==
    LET completedTournamentIds ==
            {t \in DOMAIN tournaments :
                /\ tournaments[t].seasonId = seasonId
                /\ tournaments[t].status = COMPLETED}
    IN SelectSeq(IdSeq({d \in DOMAIN participations : participations[d].seasonId = seasonId}),
                 LAMBDA d : /\ participations[d].tournamentId \in completedTournamentIds
                            /\ participations[d].ratingPointsEarned # Null
                            /\ participations[d].playerId \in players)

\* The keys of the playerRatings map in insertion order.
RECURSIVE insertionOrder(_, _)
insertionOrder(docs, seen) ==
    IF Len(docs) = 0 THEN << >>
    ELSE LET playerId == participations[docs[1]].playerId
         IN IF playerId \in seen THEN insertionOrder(Tail(docs), seen)
            ELSE <<playerId>> \o insertionOrder(Tail(docs), seen \cup {playerId})

\* Every stored score > 0 of the given participations, in one sequence.
RECURSIVE validScores(_)
validScores(docs) ==
    IF Len(docs) = 0 THEN << >>
    ELSE (IF participations[docs[1]].gameScores = Null THEN << >>
          ELSE SelectSeq(participations[docs[1]].gameScores[1], LAMBDA score : score > 0))
         \o validScores(Tail(docs))

RECURSIVE pointsOf(_)
pointsOf(docs) ==
    IF Len(docs) = 0 THEN 0
    ELSE OrZero(participations[docs[1]].ratingPointsEarned) + pointsOf(Tail(docs))

\* total / n as the pair <<total, n>>, and 0 as <<0, 1>> when n = 0.
quotient(total, n) == IF n > 0 THEN <<total, n>> ELSE <<0, 1>>

leaderboardEntryOfLast(docs, playerId) ==
    LET own == SelectSeq(docs, LAMBDA d : participations[d].playerId = playerId)
    IN [rank |-> 0,
        playerId |-> playerId,
        totalPoints |-> OrZero(participations[own[Len(own)]].ratingPointsEarned),
        tournamentsPlayed |-> Len(own),
        averagePoints |-> quotient(pointsOf(own), Len(own)),
        averagePosition |-> quotient(Sum(validScores(own)), Len(validScores(own)))]

\* The entry of one player before ranking.
leaderboardEntry(docs, playerId) ==
    LET own == SelectSeq(docs, LAMBDA d : participations[d].playerId = playerId)
    IN [rank |-> 0,
        playerId |-> playerId,
        totalPoints |-> pointsOf(own),
        tournamentsPlayed |-> Len(own),
        averagePoints |-> quotient(pointsOf(own), Len(own)),
        averagePosition |-> quotient(Sum(validScores(own)), Len(validScores(own)))]

byTotalPointsAscending(a, b) == a.totalPoints - b.totalPoints

\* (a, b) => b.totalPoints - a.totalPoints
byTotalPoints(a, b) == b.totalPoints - a.totalPoints

\* Array.sort with that comparator (stable).
RECURSIVE sortEntries(_, _)
sortEntries(sorted, rest) ==
    IF Len(rest) = 0 THEN sorted
    ELSE LET x == rest[1]
             later == {i \in 1..Len(sorted) : byTotalPoints(sorted[i], x) > 0}
             k == IF later = {} THEN Len(sorted) + 1
                  ELSE CHOOSE i \in later : \A j \in later : i <= j
         IN sortEntries(SubSeq(sorted, 1, k - 1) \o <<x>> \o SubSeq(sorted, k, Len(sorted)),
                        Tail(rest))

\* .map((entry, index) => ({ ...entry, rank: index + 1 }))
ranked(entries) == [i \in 1..Len(entries) |-> [entries[i] EXCEPT !.rank = i]]

getLeaderboard(seasonId) ==
    IF seasonId \notin DOMAIN seasons
    THEN [outcome |-> "NotFound", leaderboard |-> << >>, totalPlayers |-> 0]
    ELSE LET docs == ratedParticipations(seasonId)
             order == insertionOrder(docs, {})
             entries == [i \in 1..Len(order) |-> leaderboardEntry(docs, order[i])]
             leaderboard == ranked(sortEntries(<< >>, entries))
         IN [outcome |-> "OK",
             leaderboard |-> leaderboard,
             totalPlayers |-> Len(leaderboard)]

(***************************************************************************)
(* The initial database: one season, two completed earlier tournaments     *)
(* with their resolved results, and one tournament about to be run.        *)
(***************************************************************************)
SeasonId == "s1"
OpenTournaments == {0}
EarlierTournaments == {1, 2}

Six(v) == <<v, v, v, v, v, v>>

\* A season is created without a points table or with one; the table
\* here awards the first and the third place and has no entry for others.
PointsTable == ("1" :> 100) @@ ("3" :> 60)
RatingConfigs == {Null, Some(PointsTable)}

\* Earlier results: player 1, 4, .. averaged 120, player 2, 5, .. averaged
\* 200, player 3, 6, .. took part in one earlier tournament only.
EarlierIds == {100 * t + p : t \in EarlierTournaments, p \in Players} \
              {200 + p : p \in {q \in Players : q % 3 = 0}}

EarlierDocument(t, p) ==
    [tournamentId |-> t,
     playerId |-> p,
     seasonId |-> SeasonId,
     tournamentDate |-> t,
     handicap |-> Null,
     gameScores |-> Some(Six(IF p % 3 = 1 THEN 120 ELSE IF p % 3 = 2 THEN 200 ELSE 150)),
     totalScore |-> Some(6 * (IF p % 3 = 1 THEN 120 ELSE IF p % 3 = 2 THEN 200 ELSE 150)),
     finalsScores |-> Null,
     finalPosition |-> Null,
     ratingPointsEarned |-> Null]

EarlierResults(ratingConfig) ==
    calculateAndSaveRatingPoints(
        calculateAndSaveRatingPoints(
            [d \in EarlierIds |-> EarlierDocument(d \div 100, d % 100)],
            1, ratingConfig),
        2, ratingConfig)

NoGames == [firestore |-> Null, prisma |-> Null, web |-> Null]

\* Every player is stored, nobody has applied, no request is under way.
NoRequests ==
    /\ players = Players
    /\ applications = << >>
    /\ inflight = EmptyBag
    /\ response = Null

InitDatabase(maxParticipants) ==
    /\ \E ratingConfig \in RatingConfigs :
          /\ seasons = (SeasonId :> [ratingConfig |-> ratingConfig])
          /\ participations = EarlierResults(ratingConfig)
          /\ resolutions = [t \in OpenTournaments \cup EarlierTournaments |->
                               IF t \in EarlierTournaments /\ ratingConfig # Null THEN 1 ELSE 0]
    /\ tournaments = [t \in OpenTournaments \cup EarlierTournaments |->
          [seasonId |-> SeasonId,
           date |-> IF t \in EarlierTournaments THEN t ELSE 3,
           status |-> IF t \in EarlierTournaments THEN COMPLETED ELSE UPCOMING,
           participationCount |-> Cardinality({d \in EarlierIds : d \div 100 = t}),
           pendingApplicationCount |-> 0,
           maxParticipants |-> IF t \in EarlierTournaments THEN Null ELSE maxParticipants]]
    /\ count = 0
    /\ games = NoGames
    /\ NoRequests

Init == InitDatabase(Null)

\* Score entry as the results page sends it: the qualification games of a
\* participant, or the two games of a finalist.
GameScoreEntries == {[gameScores |-> Some(Six(100))]}
FinalsScoreEntries == {[finalsScores |-> Some(<<50, 0>>)]}

Admit ==
    /\ \E t \in OpenTournaments, p \in Players : applyToTournament(t, p)
    /\ UNCHANGED response
Remove ==
    /\ \E t \in OpenTournaments, d \in ParticipationIds : removeParticipant(t, d)
    /\ UNCHANGED response
EnterGameScores ==
    /\ \E t \in OpenTournaments, d \in ParticipationIds, u \in GameScoreEntries :
          updateParticipationResult(t, d, u)
    /\ UNCHANGED response
EnterFinalsScores ==
    /\ \E t \in OpenTournaments, d \in ParticipationIds, u \in FinalsScoreEntries :
          updateParticipationResult(t, d, u)
    /\ UNCHANGED response
\* The statuses requested for a tournament once it has been created.
RequestedStatuses == {ONGOING, COMPLETED}

ChangeStatus ==
    /\ \E t \in OpenTournaments, s \in RequestedStatuses : updateStatus(t, s)
    /\ UNCHANGED response

Next == Admit \/ Remove \/ EnterGameScores \/ EnterFinalsScores \/ ChangeStatus

Spec == Init /\ [][Next]_vars

\* Requests that set the fields the DTO exposes besides the scores.
Overrides ==
    {[handicap |-> Some(5)],
     [finalPosition |-> Some(1)],
     [ratingPointsEarned |-> Some(7)]}

Override ==
    /\ \E t \in OpenTournaments, d \in ParticipationIds, u \in Overrides :
          updateParticipationResult(t, d, u)
    /\ UNCHANGED response

NextEdit == Admit \/ Remove \/ EnterGameScores \/ ChangeStatus \/ Override

\* The tournament run here is created with maxParticipants = 2.
InitEdit == InitDatabase(Some(2))

SpecEdit == InitEdit /\ [][NextEdit]_vars

(***************************************************************************)
(* The handicap of a player admitted after a given history: the earlier    *)
(* tournaments 1..MaxHistory of the season are ongoing or completed, and   *)
(* the player took part in each or not, with the score sheet stored there. *)
(***************************************************************************)
HistoryPlayers == {1}
HistoryTournaments == 1..MaxHistory

HistorySheets ==
    {Null,
     Some(Six(0)),
     Some(Six(120)),
     Some(Six(180)),
     Some(Six(181)),
     Some(Six(240)),
     Some(<<150, 0, 0, 0, 0, 0>>),
     Some(<<180, 180, 180, 180, 180, 180, 300>>)}

HistoryEntries ==
    {[present |-> FALSE, gameScores |-> Null]} \cup
    {[present |-> TRUE, gameScores |-> g] : g \in HistorySheets}

HistoryDocument(t, p, gameScores) ==
    [tournamentId |-> t,
     playerId |-> p,
     seasonId |-> SeasonId,
     tournamentDate |-> t,
     handicap |-> Null,
     gameScores |-> gameScores,
     totalScore |-> IF gameScores = Null THEN Null ELSE Some(Sum(gameScores[1])),
     finalsScores |-> Null,
     finalPosition |-> Null,
     ratingPointsEarned |-> Null]

InitHandicap ==
    /\ seasons = (SeasonId :> [ratingConfig |-> Null])
    /\ \E status \in [HistoryTournaments -> {ONGOING, COMPLETED}],
          entry \in [HistoryTournaments -> HistoryEntries] :
          /\ tournaments = [t \in OpenTournaments \cup HistoryTournaments |->
                [seasonId |-> SeasonId,
                 date |-> IF t \in OpenTournaments THEN MaxHistory + 1 ELSE t,
                 status |-> IF t \in OpenTournaments THEN UPCOMING ELSE status[t],
                 participationCount |->
                     IF t \in OpenTournaments \/ ~entry[t].present THEN 0
                     ELSE Cardinality(HistoryPlayers),
                 pendingApplicationCount |-> 0,
                 maxParticipants |-> Null]]
          /\ participations =
                [d \in {100 * t + p : t \in {u \in HistoryTournaments : entry[u].present},
                                      p \in HistoryPlayers} |->
                    HistoryDocument(d \div 100, d % 100, entry[d \div 100].gameScores)]
    /\ resolutions = [t \in OpenTournaments \cup HistoryTournaments |-> 0]
    /\ count = 0
    /\ games = NoGames
    /\ NoRequests

AdmitWithHistory ==
    /\ \E t \in OpenTournaments, p \in HistoryPlayers : applyToTournament(t, p)
    /\ UNCHANGED response

NextHandicap == AdmitWithHistory

SpecHandicap == InitHandicap /\ [][NextHandicap]_vars

(***************************************************************************)
(* The game-count policy applied to a participant count.                   *)
(***************************************************************************)
InitGames ==
    /\ seasons = (SeasonId :> [ratingConfig |-> Null])
    /\ tournaments = << >>
    /\ participations = << >>
    /\ resolutions = << >>
    /\ count \in 0..MaxCount
    /\ games = NoGames
    /\ NoRequests

CountFirestore ==
    /\ games.firestore = Null
    /\ games' = [games EXCEPT !.firestore = Some(calculateNumberOfGames(count))]
    /\ UNCHANGED <<seasons, tournaments, participations, resolutions, count,
                   players, applications, inflight, response>>

CountPrisma ==
    /\ games.prisma = Null
    /\ games' = [games EXCEPT !.prisma = Some(calculateNumberOfGamesPrisma(count))]
    /\ UNCHANGED <<seasons, tournaments, participations, resolutions, count,
                   players, applications, inflight, response>>

CountWeb ==
    /\ games.web = Null
    /\ games' = [games EXCEPT !.web = Some(calculateNumberOfGamesWeb(count))]
    /\ UNCHANGED <<seasons, tournaments, participations, resolutions, count,
                   players, applications, inflight, response>>

NextGames == CountFirestore \/ CountPrisma \/ CountWeb

SpecGames == InitGames /\ [][NextGames]_vars

(***************************************************************************)
(* Admissions: admin adds whose reads and writes interleave, applications  *)
(* of players with their approval or rejection, removals, and deletions    *)
(* of players.                                                             *)
(***************************************************************************)
BeginAdd ==
    /\ \E t \in OpenTournaments, p \in Players : applyToTournamentReads(t, p)
    /\ UNCHANGED response

FinishAdd ==
    /\ \E r \in BagToSet(inflight) : applyToTournamentWrites(r)
    /\ UNCHANGED response

Apply ==
    /\ \E t \in OpenTournaments, p \in Players : applyToTournamentAsPlayer(t, p)
    /\ UNCHANGED response

Approve ==
    /\ \E a \in ApplicationIds : approveApplication(a)
    /\ UNCHANGED response

Reject ==
    /\ \E a \in ApplicationIds : rejectApplication(a)
    /\ UNCHANGED response

DeletePlayer ==
    /\ \E p \in Players : deletePlayerCascade(p)
    /\ UNCHANGED response

NextApply ==
    BeginAdd \/ FinishAdd \/ Apply \/ Approve \/ Reject \/ Remove \/ DeletePlayer

\* The season of the tournament has no points table.
InitApply == Init /\ seasons[SeasonId].ratingConfig = Null

SpecApply == InitApply /\ [][NextApply]_vars

(***************************************************************************)
(* The leaderboard of a season after two tournaments, read between writes  *)
(* (edits of the points a result holds, deletions of players). Each        *)
(* tournament is ongoing or completed, each player took part in it or not, *)
(* and a result holds no points, 0 or 100. A write makes the response held *)
(* by the client stale.                                                    *)
(***************************************************************************)
MissingSeasonId == "s0"
RequestedSeasons == {SeasonId, MissingSeasonId}

RatedTournaments == {1, 2}

RatedEntries ==
    {[present |-> FALSE, ratingPointsEarned |-> Null]} \cup
    {[present |-> TRUE, ratingPointsEarned |-> r] : r \in {Null, Some(0), Some(100)}}

RatedDocument(t, p, ratingPointsEarned) ==
    [tournamentId |-> t,
     playerId |-> p,
     seasonId |-> SeasonId,
     tournamentDate |-> t,
     handicap |-> Null,
     gameScores |-> Some(Six(150)),
     totalScore |-> Some(900),
     finalsScores |-> Null,
     finalPosition |-> Null,
     ratingPointsEarned |-> ratingPointsEarned]

InitLeaderboard ==
    /\ seasons = (SeasonId :> [ratingConfig |-> Some(PointsTable)])
    /\ \E status \in [RatedTournaments -> {ONGOING, COMPLETED}],
          entry \in [RatedTournaments \X Players -> RatedEntries] :
          /\ tournaments = [t \in RatedTournaments |->
                [seasonId |-> SeasonId,
                 date |-> t,
                 status |-> status[t],
                 participationCount |-> Cardinality({p \in Players : entry[<<t, p>>].present}),
                 pendingApplicationCount |-> 0,
                 maxParticipants |-> Null]]
          /\ participations =
                [d \in {100 * x[1] + x[2] :
                           x \in {y \in RatedTournaments \X Players : entry[y].present}} |->
                    RatedDocument(d \div 100, d % 100,
                                  entry[<<d \div 100, d % 100>>].ratingPointsEarned)]
    /\ resolutions = [t \in RatedTournaments |-> 0]
    /\ count = 0
    /\ games = NoGames
    /\ NoRequests

\* Requests that set the points of a result.
PointEntries == {[ratingPointsEarned |-> Some(100)]}

EditPointsThenStale ==
    /\ \E t \in RatedTournaments, d \in DOMAIN participations, u \in PointEntries :
          updateParticipationResult(t, d, u)
    /\ response' = Null

DeletePlayerThenStale ==
    /\ \E p \in Players : deletePlayerCascade(p)
    /\ response' = Null

\* A getLeaderboard call; calls counts the calls since the last write.
GetLeaderboard ==
    /\ \E seasonId \in RequestedSeasons :
          response' = [seasonId |-> seasonId,
                       result |-> getLeaderboard(seasonId),
                       calls |-> IF response = Null THEN 1
                                 ELSE Min2(response.calls + 1, MaxCounted)]
    /\ UNCHANGED <<seasons, tournaments, participations, resolutions, count, games,
                   players, applications, inflight>>

NextLeaderboard == EditPointsThenStale \/ DeletePlayerThenStale \/ GetLeaderboard

SpecLeaderboard == InitLeaderboard /\ [][NextLeaderboard]_vars

(***************************************************************************)
(* Score entry through the API: a sheet of six games, a sheet of seven     *)
(* games (the DTO bounds the length from below only), and a request that   *)
(* carries totalScore alone.                                               *)
(***************************************************************************)
SheetRequests ==
    {[gameScores |-> Some(Six(100))],
     [gameScores |-> Some(Six(100) \o <<100>>)],
     [totalScore |-> Some(5)]}

EnterSheet ==
    /\ \E t \in OpenTournaments, d \in ParticipationIds, u \in SheetRequests :
          updateParticipationResult(t, d, u)
    /\ UNCHANGED response

NextScores == Admit \/ Remove \/ EnterSheet \/ ChangeStatus

SpecScores == Init /\ [][NextScores]_vars

(***************************************************************************)
(* One season with the points table {1: 100, 2: 80, 3: 60} and a single    *)
(* tournament with three participants admitted without handicap: their     *)
(* sheets are entered, the tournament is completed, the leaderboard read.   *)
(***************************************************************************)
SeasonTable == ("1" :> 100) @@ ("2" :> 80) @@ ("3" :> 60)
SeasonPlayers == {1, 2, 3}

\* Sheets of six games with the totals 180, 200 and 150.
SeasonSheets ==
    {[gameScores |-> Some(Six(30))],
     [gameScores |-> Some(<<35, 33, 33, 33, 33, 33>>)],
     [gameScores |-> Some(Six(25))]}

InitSeason ==
    /\ seasons = (SeasonId :> [ratingConfig |-> Some(SeasonTable)])
    /\ tournaments = [t \in OpenTournaments |->
          [seasonId |-> SeasonId,
           date |-> 1,
           status |-> UPCOMING,
           participationCount |-> Cardinality(SeasonPlayers),
           pendingApplicationCount |-> 0,
           maxParticipants |-> Null]]
    /\ participations = [d \in SeasonPlayers |->
          [tournamentId |-> CHOOSE t \in OpenTournaments : TRUE,
           playerId |-> d,
           seasonId |-> SeasonId,
           tournamentDate |-> 1,
           handicap |-> Null,
           gameScores |-> Null,
           totalScore |-> Null,
           finalsScores |-> Null,
           finalPosition |-> Null,
           ratingPointsEarned |-> Null]]
    /\ resolutions = [t \in OpenTournaments |-> 0]
    /\ count = 0
    /\ games = NoGames
    /\ players = SeasonPlayers
    /\ applications = << >>
    /\ inflight = EmptyBag
    /\ response = Null

EnterSheetThenStale ==
    /\ \E t \in OpenTournaments, d \in SeasonPlayers, u \in SeasonSheets :
          updateParticipationResult(t, d, u)
    /\ response' = Null

ChangeStatusThenStale ==
    /\ \E t \in OpenTournaments, s \in RequestedStatuses : updateStatus(t, s)
    /\ response' = Null

NextSeason == EnterSheetThenStale \/ ChangeStatusThenStale \/ GetLeaderboard

SpecSeason == InitSeason /\ [][NextSeason]_vars

(***************************************************************************)
(* The resolver's sort over drawn results: three results of one tournament *)
(* whose totals, handicaps and finals scores are drawn from sets that make *)
(* ties, finalists and non-finalists happen; the tournament is completed.  *)
(***************************************************************************)
OrderTotals == {Null, Some(100), Some(130)}
OrderHandicaps == {Null, Some(5)}
OrderFinals == {Null, Some(<<50, 0>>), Some(<<30, 30>>)}

InitOrder ==
    /\ seasons = (SeasonId :> [ratingConfig |-> Some(SeasonTable)])
    /\ tournaments = [t \in OpenTournaments |->
          [seasonId |-> SeasonId,
           date |-> 1,
           status |-> ONGOING,
           participationCount |-> Cardinality(SeasonPlayers),
           pendingApplicationCount |-> 0,
           maxParticipants |-> Null]]
    /\ \E totalScore \in [SeasonPlayers -> OrderTotals],
          handicap \in [SeasonPlayers -> OrderHandicaps],
          finalsScores \in [SeasonPlayers -> OrderFinals] :
          participations = [d \in SeasonPlayers |->
              [tournamentId |-> CHOOSE t \in OpenTournaments : TRUE,
               playerId |-> d,
               seasonId |-> SeasonId,
               tournamentDate |-> 1,
               handicap |-> handicap[d],
               gameScores |-> Null,
               totalScore |-> totalScore[d],
               finalsScores |-> finalsScores[d],
               finalPosition |-> Null,
               ratingPointsEarned |-> Null]]
    /\ resolutions = [t \in OpenTournaments |-> 0]
    /\ count = 0
    /\ games = NoGames
    /\ players = SeasonPlayers
    /\ applications = << >>
    /\ inflight = EmptyBag
    /\ response = Null

Complete ==
    /\ \E t \in OpenTournaments :
          /\ tournaments[t].status # COMPLETED
          /\ updateStatus(t, COMPLETED)
    /\ UNCHANGED response

NextOrder == Complete

SpecOrder == InitOrder /\ [][NextOrder]_vars

(***************************************************************************)
(* Admission of a player with a history, by an admin's direct add or by    *)
(* an application and its approval, in either backend.                     *)
(***************************************************************************)
ApplyWithHistory ==
    /\ \E t \in OpenTournaments, p \in HistoryPlayers : applyToTournamentAsPlayer(t, p)
    /\ UNCHANGED response

ApproveWithHistory ==
    /\ \E a \in ApplicationIds : approveApplication(a)
    /\ UNCHANGED response

AdmitPrisma ==
    /\ \E t \in OpenTournaments, p \in HistoryPlayers : applyToTournamentPrisma(t, p)
    /\ UNCHANGED response

ApplyPrisma ==
    /\ \E t \in OpenTournaments, p \in HistoryPlayers : applyToTournamentPrismaAsPlayer(t, p)
    /\ UNCHANGED response

ApprovePrisma ==
    /\ \E a \in ApplicationIds : approveApplicationPrisma(a)
    /\ UNCHANGED response

NextAdmission ==
    \/ AdmitWithHistory
    \/ ApplyWithHistory
    \/ ApproveWithHistory
    \/ AdmitPrisma
    \/ ApplyPrisma
    \/ ApprovePrisma

SpecAdmission == InitHandicap /\ [][NextAdmission]_vars

(***************************************************************************)
(* Applications and their review: players apply, an admin approves (one    *)
(* transaction) or rejects (reads, then writes), players are deleted.      *)
(***************************************************************************)
BeginReject ==
    /\ \E a \in ApplicationIds : rejectApplicationReads(a)
    /\ UNCHANGED response

FinishReject ==
    /\ \E r \in BagToSet(inflight) : rejectApplicationWrites(r)
    /\ UNCHANGED response

NextReview == Apply \/ Approve \/ BeginReject \/ FinishReject \/ DeletePlayer

SpecReview == InitApply /\ [][NextReview]_vars

(***************************************************************************)
(* Admissions to a tournament created with maxParticipants = 1.            *)
(***************************************************************************)
InitCapacity == InitDatabase(Some(1))

NextCapacity == BeginAdd \/ FinishAdd \/ Apply \/ Approve \/ Remove \/ DeletePlayer

SpecCapacity == InitCapacity /\ [][NextCapacity]_vars

(***************************************************************************)
(* SeasonsService: create, update and remove. A date is a number of        *)
(* half-months, so monthOf gives the month counted from a fixed origin.    *)
(***************************************************************************)
SeasonIds == {"s1", "s2"}

monthOf(date) == date \div 2

\* (endDate.getFullYear() - startDate.getFullYear()) * 12
\*     + (endDate.getMonth() - startDate.getMonth())
diffMonths(startDate, endDate) == monthOf(endDate) - monthOf(startDate)

\* The overlap test of create against one stored season.
overlaps(startDate, endDate, existingSeason) ==
    \/ (startDate <= existingSeason.endDate /\ startDate >= existingSeason.startDate)
    \/ (endDate <= existingSeason.endDate /\ endDate >= existingSeason.startDate)
    \/ (startDate <= existingSeason.startDate /\ endDate >= existingSeason.endDate)

\* The checks of create: the duration, the order of the dates, the overlap.
createSeasonChecks(dto) ==
    /\ ~(diffMonths(dto.startDate, dto.endDate) < 2 \/ diffMonths(dto.startDate, dto.endDate) > 4)
    /\ ~(dto.startDate >= dto.endDate)
    /\ \A id \in DOMAIN seasons : ~overlaps(dto.startDate, dto.endDate, seasons[id])

\* The batch that sets isActive to false on every active season but one.
deactivateOthers(docs, id) ==
    [x \in DOMAIN docs |->
        IF docs[x].isActive /\ x # id THEN [docs[x] EXCEPT !.isActive = FALSE] ELSE docs[x]]

\* seasonDoc of create.
seasonDoc(dto) ==
    [ratingConfig |-> Null,
     startDate |-> dto.startDate,
     endDate |-> dto.endDate,
     isActive |-> dto.isActive,
     tournamentCount |-> 0]

\* The stored season after update(updateData).
seasonUpdated(season, dto) ==
    [season EXCEPT
        !.startDate = IF "startDate" \in DOMAIN dto THEN dto.startDate ELSE @,
        !.endDate = IF "endDate" \in DOMAIN dto THEN dto.endDate ELSE @,
        !.isActive = IF "isActive" \in DOMAIN dto THEN dto.isActive ELSE @]

\* The checks of update: the season is stored and the dates are in order.
updateSeasonChecks(id, dto) ==
    /\ id \in DOMAIN seasons
    /\ LET startDate == IF "startDate" \in DOMAIN dto THEN dto.startDate
                        ELSE seasons[id].startDate
           endDate == IF "endDate" \in DOMAIN dto THEN dto.endDate ELSE seasons[id].endDate
       IN ~(startDate >= endDate)

\* updateSeasonDto.isActive
setsActive(dto) == "isActive" \in DOMAIN dto /\ dto.isActive

\* SeasonsService.create, run to completion. "none" is no stored id.
createSeason(dto) ==
    /\ createSeasonChecks(dto)
    /\ \E seasonId \in SeasonIds \ DOMAIN seasons :
          seasons' = (seasonId :> seasonDoc(dto)) @@
                     (IF dto.isActive THEN deactivateOthers(seasons, "none") ELSE seasons)
    /\ UNCHANGED <<tournaments, participations, resolutions, count, games, players,
                   applications, inflight>>

\* SeasonsService.update, run to completion.
updateSeason(id, dto) ==
    /\ updateSeasonChecks(id, dto)
    /\ seasons' = [(IF setsActive(dto) THEN deactivateOthers(seasons, id) ELSE seasons)
                      EXCEPT ![id] = seasonUpdated(@, dto)]
    /\ UNCHANGED <<tournaments, participations, resolutions, count, games, players,
                   applications, inflight>>

\* SeasonsService.remove.
removeSeason(id) ==
    /\ id \in DOMAIN seasons
    /\ ~(seasons[id].tournamentCount > 0)
    /\ seasons' = [x \in DOMAIN seasons \ {id} |-> seasons[x]]
    /\ UNCHANGED <<tournaments, participations, resolutions, count, games, players,
                   applications, inflight>>

\* create as far as the commit of the deactivating batch; the season
\* document is not stored yet.
createSeasonReads(dto) ==
    /\ BagCardinality(inflight) < MaxRequests
    /\ createSeasonChecks(dto)
    /\ seasons' = IF dto.isActive THEN deactivateOthers(seasons, "none") ELSE seasons
    /\ inflight' = inflight (+) SetToBag({[kind |-> "create", dto |-> dto]})
    /\ UNCHANGED <<tournaments, participations, resolutions, count, games, players,
                   applications>>

\* The rest of create: the season document is stored under a fresh id.
createSeasonWrites(r) ==
    /\ BagIn(r, inflight)
    /\ r.kind = "create"
    /\ \E seasonId \in SeasonIds \ DOMAIN seasons :
          seasons' = (seasonId :> seasonDoc(r.dto)) @@ seasons
    /\ inflight' = inflight (-) SetToBag({r})
    /\ UNCHANGED <<tournaments, participations, resolutions, count, games, players,
                   applications>>

\* update as far as the commit of the deactivating batch.
updateSeasonReads(id, dto) ==
    /\ BagCardinality(inflight) < MaxRequests
    /\ updateSeasonChecks(id, dto)
    /\ seasons' = IF setsActive(dto) THEN deactivateOthers(seasons, id) ELSE seasons
    /\ inflight' = inflight (+) SetToBag({[kind |-> "update", id |-> id, dto |-> dto]})
    /\ UNCHANGED <<tournaments, participations, resolutions, count, games, players,
                   applications>>

\* The rest of update: the season document is updated. The update of a
\* document deleted in the meantime fails.
updateSeasonWrites(r) ==
    /\ BagIn(r, inflight)
    /\ r.kind = "update"
    /\ seasons' = IF r.id \in DOMAIN seasons
                  THEN [seasons EXCEPT ![r.id] = seasonUpdated(@, r.dto)]
                  ELSE seasons
    /\ inflight' = inflight (-) SetToBag({r})
    /\ UNCHANGED <<tournaments, participations, resolutions, count, games, players,
                   applications>>

(***************************************************************************)
(* TournamentsService: create, update and remove, as far as the season of  *)
(* the tournament and the season's tournamentCount go.                     *)
(***************************************************************************)
TournamentIds == {1, 2}

createTournament(seasonId, date) ==
    /\ seasonId \in DOMAIN seasons
    /\ ~(date < seasons[seasonId].startDate \/ date > seasons[seasonId].endDate)
    /\ \E tournamentId \in TournamentIds \ DOMAIN tournaments :
          tournaments' = (tournamentId :>
              [seasonId |-> seasonId,
               date |-> date,
               status |-> UPCOMING,
               participationCount |-> 0,
               pendingApplicationCount |-> 0,
               maxParticipants |-> Null]) @@ tournaments
    /\ seasons' = [seasons EXCEPT ![seasonId].tournamentCount = @ + 1]
    /\ UNCHANGED <<participations, resolutions, count, games, players, applications, inflight>>

\* update: a new season must be stored and hold the tournament's date;
\* the document is updated and no season is written.
updateTournament(id, dto) ==
    /\ id \in DOMAIN tournaments
    /\ ("seasonId" \in DOMAIN dto /\ dto.seasonId # tournaments[id].seasonId) =>
          /\ dto.seasonId \in DOMAIN seasons
          /\ LET tournamentDate == IF "date" \in DOMAIN dto THEN dto.date
                                   ELSE tournaments[id].date
             IN ~(\/ tournamentDate < seasons[dto.seasonId].startDate
                  \/ tournamentDate > seasons[dto.seasonId].endDate)
    /\ tournaments' = [tournaments EXCEPT
          ![id].seasonId = IF "seasonId" \in DOMAIN dto THEN dto.seasonId ELSE @,
          ![id].date = IF "date" \in DOMAIN dto THEN dto.date ELSE @]
    /\ UNCHANGED <<seasons, participations, resolutions, count, games, players,
                   applications, inflight>>

\* One batch: the season's tournamentCount is decremented and the
\* tournament deleted; the batch fails when the season is not stored.
deleteTournamentCascade(tournamentId, seasonId) ==
    /\ seasonId \in DOMAIN seasons
    /\ participations' = [d \in {e \in DOMAIN participations :
                                    participations[e].tournamentId # tournamentId} |->
                             participations[d]]
    /\ applications' = [a \in {b \in DOMAIN applications :
                                  applications[b].tournamentId # tournamentId} |->
                           applications[a]]
    /\ seasons' = [seasons EXCEPT ![seasonId].tournamentCount = @ - 1]
    /\ tournaments' = [t \in DOMAIN tournaments \ {tournamentId} |-> tournaments[t]]
    /\ UNCHANGED <<resolutions, count, games, players, inflight>>

removeTournament(id) ==
    /\ id \in DOMAIN tournaments
    /\ ~(tournaments[id].participationCount > 0)
    /\ deleteTournamentCascade(id, tournaments[id].seasonId)

(***************************************************************************)
(* The administration of seasons and tournaments, from an empty database.  *)
(***************************************************************************)
CreateSeasonRequests ==
    {[startDate |-> x[1], endDate |-> x[2], isActive |-> b] :
        x \in {<<0, 5>>, <<4, 9>>, <<6, 11>>, <<0, 1>>}, b \in BOOLEAN}

UpdateSeasonRequests ==
    {[isActive |-> TRUE], [isActive |-> FALSE], [endDate |-> 7], [startDate |-> 11]}

TournamentDates == {4, 8}

UpdateTournamentRequests ==
    {[seasonId |-> s] : s \in SeasonIds} \cup
    {[seasonId |-> s, date |-> d] : s \in SeasonIds, d \in TournamentDates}

InitAdmin ==
    /\ seasons = << >>
    /\ tournaments = << >>
    /\ participations = << >>
    /\ resolutions = << >>
    /\ count = 0
    /\ games = NoGames
    /\ players = Players
    /\ applications = << >>
    /\ inflight = EmptyBag
    /\ response = Null

CreateSeason ==
    /\ \E dto \in CreateSeasonRequests : createSeason(dto)
    /\ UNCHANGED response

UpdateSeason ==
    /\ \E id \in SeasonIds, dto \in UpdateSeasonRequests : updateSeason(id, dto)
    /\ UNCHANGED response

RemoveSeason ==
    /\ \E id \in SeasonIds : removeSeason(id)
    /\ UNCHANGED response

\* The counters are kept within -MaxTournamentCount..MaxTournamentCount.
CreateTournament ==
    /\ \E seasonId \in SeasonIds, date \in TournamentDates :
          /\ seasonId \in DOMAIN seasons
          /\ seasons[seasonId].tournamentCount < MaxTournamentCount
          /\ createTournament(seasonId, date)
    /\ UNCHANGED response

UpdateTournament ==
    /\ \E id \in TournamentIds, dto \in UpdateTournamentRequests : updateTournament(id, dto)
    /\ UNCHANGED response

RemoveTournament ==
    /\ \E id \in TournamentIds :
          /\ id \in DOMAIN tournaments
          /\ tournaments[id].seasonId \in DOMAIN seasons
          /\ seasons[tournaments[id].seasonId].tournamentCount > 0 - MaxTournamentCount
          /\ removeTournament(id)
    /\ UNCHANGED response

NextAdmin ==
    \/ CreateSeason
    \/ UpdateSeason
    \/ RemoveSeason
    \/ CreateTournament
    \/ UpdateTournament
    \/ RemoveTournament

SpecAdmin == InitAdmin /\ [][NextAdmin]_vars

\* Season requests that overlap in time: each is a read part and a write part.
BeginCreateSeason ==
    /\ \E dto \in CreateSeasonRequests : createSeasonReads(dto)
    /\ UNCHANGED response

FinishCreateSeason ==
    /\ \E r \in BagToSet(inflight) : createSeasonWrites(r)
    /\ UNCHANGED response

BeginUpdateSeason ==
    /\ \E id \in SeasonIds, dto \in UpdateSeasonRequests : updateSeasonReads(id, dto)
    /\ UNCHANGED response

FinishUpdateSeason ==
    /\ \E r \in BagToSet(inflight) : updateSeasonWrites(r)
    /\ UNCHANGED response

NextActivation ==
    \/ BeginCreateSeason
    \/ FinishCreateSeason
    \/ BeginUpdateSeason
    \/ FinishUpdateSeason

SpecActivation == InitAdmin /\ [][NextActivation]_vars

(***************************************************************************)
(* Properties.                                                             *)
(***************************************************************************)
DocsOf(t) == {d \in DOMAIN participations : participations[d].tournamentId = t}

RatingConfigOf(t) == seasons[tournaments[t].seasonId].ratingConfig

\* Every participation of t has a position, and the positions are 1..n.
PlacedExactly(t) ==
    /\ \A d \in DocsOf(t) : participations[d].finalPosition # Null
    /\ {participations[d].finalPosition[1] : d \in DocsOf(t)} = 1..Cardinality(DocsOf(t))
    /\ \A d, e \in DocsOf(t) :
          participations[d].finalPosition = participations[e].finalPosition => d = e

\* C1: placement totality. When updateStatus(t, COMPLETED) has run on a
\* tournament with n >= 1 participations, every one of them has a
\* finalPosition and the positions are exactly 1..n, without repeats.
C1_PlacementTotality ==
    [][\A t \in OpenTournaments :
          (updateStatus(t, COMPLETED) /\ DocsOf(t) # {}) => PlacedExactly(t)']_vars

\* C2: finals precedence. Whenever the resolver runs on a tournament in
\* which some participation has finals scores, every participation with
\* finals scores is placed strictly before every participation without,
\* whatever the totals and handicaps are.
C2_FinalsPrecedence ==
    [][\A t \in OpenTournaments :
          (updateStatus(t, COMPLETED) /\ resolverCommits(participations, t, RatingConfigOf(t))) =>
              \A a, b \in DocsOf(t) :
                  (HasFinalsScores(participations[a]) /\ ~HasFinalsScores(participations[b])) =>
                      participations'[a].finalPosition[1] < participations'[b].finalPosition[1]]_vars

\* A finalist who entered no qualification score and has finals total 50
\* stands first, before a participant without finals scores whose
\* qualification total with handicap is far higher.
C2_Witness ==
    \E t \in OpenTournaments : \E a, b \in DocsOf(t) :
        /\ tournaments[t].status = COMPLETED
        /\ HasFinalsScores(participations[a])
        /\ Sum(participations[a].finalsScores[1]) = 50
        /\ participations[a].totalScore = Null
        /\ ~HasFinalsScores(participations[b])
        /\ qualificationTotal(participations[b], 6) > 600
        /\ participations[a].finalPosition = Some(1)
        /\ participations[b].finalPosition = Some(2)

\* C3: at most one placement resolution per tournament. The resolver
\* commits its writes of finalPosition / ratingPointsEarned at most once
\* for a tournament, whatever updateStatus requests are made.
C3_AtMostOneResolution ==
    \A t \in OpenTournaments : resolutions[t] <= 1

\* C4: points totality and non-negativity. Whenever a tournament is
\* COMPLETED, every participation of it has ratingPointsEarned defined
\* and >= 0.
C4_PointsDefined ==
    \A t \in OpenTournaments :
        tournaments[t].status = COMPLETED =>
            \A d \in DocsOf(t) :
                /\ participations[d].ratingPointsEarned # Null
                /\ participations[d].ratingPointsEarned[1] >= 0

\* C5: rating-point lookup. The resolver gives the result placed at
\* position p the table's entry for p when there is one and 0 when there
\* is none; the field is never left null.
C5_RatingPointLookup ==
    [][\A t \in OpenTournaments :
          (updateStatus(t, COMPLETED) /\ resolverCommits(participations, t, RatingConfigOf(t))) =>
              \A d \in DocsOf(t) :
                  LET table == RatingConfigOf(t)[1]
                      key == ToString(participations'[d].finalPosition[1])
                      points == participations'[d].ratingPointsEarned
                  IN /\ points # Null
                     /\ key \in DOMAIN table => points[1] = table[key]
                     /\ key \notin DOMAIN table => points[1] = 0]_vars

\* The table has an entry for the first place and none for the second:
\* the results placed there hold 100 and 0 points.
C5_Witness ==
    \E t \in OpenTournaments : \E a, b \in DocsOf(t) :
        /\ tournaments[t].status = COMPLETED
        /\ RatingConfigOf(t) # Null
        /\ "2" \notin DOMAIN RatingConfigOf(t)[1]
        /\ participations[a].finalPosition = Some(1)
        /\ participations[a].ratingPointsEarned = Some(100)
        /\ participations[b].finalPosition = Some(2)
        /\ participations[b].ratingPointsEarned = Some(0)

CompletedResults(p) ==
    {d \in DOMAIN participations :
        /\ participations[d].playerId = p
        /\ tournaments[participations[d].tournamentId].status = COMPLETED}

\* The two most recent of them that hold a score sheet.
RecentScored(p) ==
    LET scored == {d \in CompletedResults(p) : participations[d].gameScores # Null}
    IN {d \in scored :
            Cardinality({e \in scored :
                participations[e].tournamentDate > participations[d].tournamentDate}) < 2}

RECURSIVE PlayedTotal(_)
PlayedTotal(S) ==
    IF S = {} THEN 0
    ELSE LET d == CHOOSE x \in S : TRUE
         IN Sum(PlayedScores(participations[d].gameScores[1])) + PlayedTotal(S \ {d})

RECURSIVE PlayedGames(_)
PlayedGames(S) ==
    IF S = {} THEN 0
    ELSE LET d == CHOOSE x \in S : TRUE
         IN Len(PlayedScores(participations[d].gameScores[1])) + PlayedGames(S \ {d})

\* C7: handicap boundedness. Whatever the player's history of score
\* sheets, the handicap given at admission is null or an integer in
\* -15..15; when a handicap is due, an average of 180 over the played
\* games gives 0, an average of 120 gives 15 and an average of 240 gives -15.
C7_HandicapBounded ==
    \A t \in OpenTournaments : \A d \in DocsOf(t) :
        LET h == participations[d].handicap
            recent == RecentScored(participations[d].playerId)
            total == PlayedTotal(recent)
            n == PlayedGames(recent)
        IN /\ h = Null \/ (h[1] >= -15 /\ h[1] <= 15)
           /\ (Cardinality(recent) = 2 /\ n > 0 /\ total = 180 * n) => h = Some(0)
           /\ (Cardinality(recent) = 2 /\ n > 0 /\ total = 120 * n) => h = Some(15)
           /\ (Cardinality(recent) = 2 /\ n > 0 /\ total = 240 * n) => h = Some(-15)

\* A player whose two counted sheets average 120 is admitted with 15.
C7_Witness ==
    \E t \in OpenTournaments : \E d \in DocsOf(t) :
        LET recent == RecentScored(participations[d].playerId)
        IN /\ Cardinality(recent) = 2
           /\ PlayedGames(recent) = 12
           /\ PlayedTotal(recent) = 120 * 12
           /\ participations[d].handicap = Some(15)

\* C8: a handicap needs two completed results. A player with fewer than
\* two results in COMPLETED tournaments of the season is admitted
\* without handicap, even when the one result holds valid scores; so is
\* a player whose counted results hold no played game.
C8_HandicapNeedsTwoResults ==
    \A t \in OpenTournaments : \A d \in DocsOf(t) :
        LET p == participations[d].playerId
        IN /\ Cardinality(CompletedResults(p)) < 2 => participations[d].handicap = Null
           /\ PlayedGames(RecentScored(p)) = 0 => participations[d].handicap = Null

\* One completed result with six played games, and no handicap given.
C8_Witness ==
    \E t \in OpenTournaments : \E d \in DocsOf(t) :
        LET p == participations[d].playerId
        IN /\ Cardinality(CompletedResults(p)) = 1
           /\ PlayedGames(RecentScored(p)) = 6
           /\ participations[d].handicap = Null

\* The participations that a step keeps.
Kept == DOMAIN participations \cap DOMAIN participations'

\* A step is a result update of d whose body carries the field.
RequestCarrying(d, field) ==
    \E t \in OpenTournaments, u \in Overrides :
        /\ field \in DOMAIN u
        /\ updateParticipationResult(t, d, u)

\* A step is a COMPLETED transition of d's tournament whose resolver writes.
ResolverWrites(d) ==
    /\ resolverCommits(participations, participations[d].tournamentId,
                       RatingConfigOf(participations[d].tournamentId))
    /\ updateStatus(participations[d].tournamentId, COMPLETED)

\* C9 as stated: handicap immutability. No operation changes the
\* handicap of an existing participation.
C9_HandicapImmutable ==
    [][\A d \in Kept : participations'[d].handicap = participations[d].handicap]_vars

\* C9 amended: the handicap of an existing participation changes only by
\* an updateParticipationResult request whose body carries a handicap;
\* score entry, status changes, placement resolution and further
\* admissions leave it unchanged.
C9_HandicapChangedOnlyByRequest ==
    [][\A d \in Kept :
          participations'[d].handicap # participations[d].handicap =>
              RequestCarrying(d, "handicap")]_vars

\* One participation keeps the 15 given at admission through score
\* entry and resolution; another holds the 5 of a request.
C9_Witness ==
    \E t \in OpenTournaments : \E a, b \in DocsOf(t) :
        /\ tournaments[t].status = COMPLETED
        /\ participations[a].handicap = Some(15)
        /\ participations[a].gameScores # Null
        /\ participations[a].finalPosition # Null
        /\ participations[b].handicap = Some(5)

\* C10 as stated: only the resolver run inside updateStatus(COMPLETED)
\* changes finalPosition or ratingPointsEarned.
C10_WrittenOnlyByResolver ==
    [][\A d \in Kept :
          (\/ participations'[d].finalPosition # participations[d].finalPosition
           \/ participations'[d].ratingPointsEarned # participations[d].ratingPointsEarned) =>
              ResolverWrites(d)]_vars

\* C10 amended: finalPosition changes only by the resolver or by an
\* updateParticipationResult request whose body carries finalPosition,
\* ratingPointsEarned only by the resolver or by a request carrying
\* ratingPointsEarned; a resolver that writes leaves both fields
\* non-null on every participation of the tournament.
C10_WrittenByResolverOrRequest ==
    [][\A d \in Kept :
          /\ participations'[d].finalPosition # participations[d].finalPosition =>
                (ResolverWrites(d) \/ RequestCarrying(d, "finalPosition"))
          /\ participations'[d].ratingPointsEarned # participations[d].ratingPointsEarned =>
                (ResolverWrites(d) \/ RequestCarrying(d, "ratingPointsEarned"))
          /\ (\/ participations'[d].finalPosition = Null
              \/ participations'[d].ratingPointsEarned = Null) => ~ResolverWrites(d)]_vars

\* A resolved participation holds the pair the resolver wrote, another
\* holds a position set by a request and no points.
C10_Witness ==
    \E t \in OpenTournaments : \E a, b \in DocsOf(t) :
        /\ tournaments[t].status = COMPLETED
        /\ participations[a].finalPosition = Some(2)
        /\ participations[a].ratingPointsEarned = Some(0)
        /\ participations[b].finalPosition = Some(1)
        /\ participations[b].ratingPointsEarned = Null

\* C11: one participation per (tournament, player). In every reachable
\* state no two participation records name the same tournament and the
\* same player, whatever admissions, approvals, rejections and removals
\* are made, admissions of one pair that run concurrently included.
C11_OneParticipationPerPair ==
    \A d, e \in DOMAIN participations :
        (/\ participations[d].tournamentId = participations[e].tournamentId
         /\ participations[d].playerId = participations[e].playerId) => d = e

\* The entries of the response held, when it is a leaderboard.
HeldLeaderboard == IF response = Null THEN << >> ELSE response.result.leaderboard

\* C12: leaderboard ranking. The entries of a leaderboard are in
\* non-increasing order of totalPoints, the entry at index i (counting
\* from 0) has rank i + 1, players that tie included, and totalPlayers is
\* the number of entries.
C12_LeaderboardRanking ==
    response # Null =>
        /\ \A i, j \in 1..Len(HeldLeaderboard) :
              i < j => HeldLeaderboard[i].totalPoints >= HeldLeaderboard[j].totalPoints
        /\ \A i \in 1..Len(HeldLeaderboard) : HeldLeaderboard[i].rank = i
        /\ response.result.totalPlayers = Len(HeldLeaderboard)

\* Two players tie on totalPoints and hold the ranks 1 and 2; another
\* leaderboard has a first entry with strictly more points than the second.
C12_Witness ==
    /\ Len(HeldLeaderboard) = 2
    /\ HeldLeaderboard[1].totalPoints = HeldLeaderboard[2].totalPoints
    /\ HeldLeaderboard[1].totalPoints > 0
    /\ HeldLeaderboard[1].rank = 1
    /\ HeldLeaderboard[2].rank = 2

ScoredResults(seasonId) ==
    {d \in DOMAIN participations :
        /\ participations[d].seasonId = seasonId
        /\ tournaments[participations[d].tournamentId].status = COMPLETED
        /\ participations[d].ratingPointsEarned # Null}

\* C14: leaderboard error outcomes. A call for a season id that is not
\* stored fails with Not-Found; a call for a stored season without any
\* result with points in a COMPLETED tournament returns an empty
\* leaderboard with totalPlayers = 0, not an error.
C14_LeaderboardOutcomes ==
    response # Null =>
        /\ response.seasonId \notin DOMAIN seasons => response.result.outcome = "NotFound"
        /\ (response.seasonId \in DOMAIN seasons /\ ScoredResults(response.seasonId) = {}) =>
              /\ response.result.outcome = "OK"
              /\ response.result.leaderboard = << >>
              /\ response.result.totalPlayers = 0

\* The season is stored and has a COMPLETED tournament with a participation,
\* none of its results holds points, and the leaderboard returned is empty.
C14_Witness ==
    /\ response # Null
    /\ response.seasonId = SeasonId
    /\ \E d \in DOMAIN participations :
          tournaments[participations[d].tournamentId].status = COMPLETED
    /\ \E d \in DOMAIN participations : participations[d].ratingPointsEarned # Null
    /\ ScoredResults(SeasonId) = {}
    /\ response.result.outcome = "OK"
    /\ response.result.totalPlayers = 0

\* C15: qualification-score length bound. In every reachable state the
\* stored gameScores of a participation has at most as many entries as
\* the game-count policy gives for the participant count of its tournament.
C15_ScoreLengthBound ==
    \A d \in DOMAIN participations :
        participations[d].gameScores # Null =>
            Len(participations[d].gameScores[1]) <=
                calculateNumberOfGames(Cardinality(DocsOf(participations[d].tournamentId)))

DistinctTotals(t) ==
    /\ \A d \in DocsOf(t) :
          /\ participations[d].gameScores # Null
          /\ participations[d].handicap = Null
          /\ participations[d].finalsScores = Null
    /\ \A d, e \in DocsOf(t) :
          Sum(participations[d].gameScores[1]) = Sum(participations[e].gameScores[1]) => d = e

\* 1 + the number of participations of t with a higher total than d.
PlaceByTotal(t, d) ==
    1 + Cardinality({e \in DocsOf(t) :
            Sum(participations[e].gameScores[1]) > Sum(participations[d].gameScores[1])})

\* C17: end-to-end scoring. When a tournament whose participants hold
\* pairwise distinct totals, no handicap and no finals scores is set to
\* COMPLETED, the participant with the k-th highest total gets
\* finalPosition k and the table's points for k; a leaderboard read from
\* the season while the tournament is COMPLETED ranks each player at the
\* finalPosition of its result, with totalPoints equal to its points.
C17_EndToEndScoring ==
    [][\A t \in OpenTournaments :
          /\ (updateStatus(t, COMPLETED) /\ DistinctTotals(t)) =>
                \A d \in DocsOf(t) :
                    /\ participations'[d].finalPosition = Some(PlaceByTotal(t, d))
                    /\ participations'[d].ratingPointsEarned =
                           Some(SeasonTable[ToString(PlaceByTotal(t, d))])
          /\ (/\ response' # Null
              /\ response'.seasonId = SeasonId
              /\ tournaments'[t].status = COMPLETED) =>
                 /\ response'.result.totalPlayers = Cardinality(DocsOf(t))
                 /\ \A d \in DocsOf(t) :
                       \E i \in 1..Len(response'.result.leaderboard) :
                           LET entry == response'.result.leaderboard[i]
                           IN /\ entry.playerId = participations[d].playerId
                              /\ Some(entry.rank) = participations'[d].finalPosition
                              /\ Some(entry.totalPoints) = participations'[d].ratingPointsEarned]_vars

\* Totals 180, 200, 150: positions 2, 1, 3, points 80, 100, 60, and the
\* leaderboard shows the second player first with 100 points.
C17_Witness ==
    /\ \A t \in OpenTournaments : tournaments[t].status = COMPLETED
    /\ participations[1].totalScore = Some(180)
    /\ participations[2].totalScore = Some(200)
    /\ participations[3].totalScore = Some(150)
    /\ participations[1].finalPosition = Some(2)
    /\ participations[2].finalPosition = Some(1)
    /\ participations[3].finalPosition = Some(3)
    /\ participations[1].ratingPointsEarned = Some(80)
    /\ participations[2].ratingPointsEarned = Some(100)
    /\ participations[3].ratingPointsEarned = Some(60)
    /\ response # Null
    /\ response.seasonId = SeasonId
    /\ response.result.leaderboard[1].playerId = 2
    /\ response.result.leaderboard[1].rank = 1
    /\ response.result.leaderboard[1].totalPoints = 100

\* The reference order. qualScore of a result among n results.
RefQualScore(d) ==
    OrZero(participations[d].totalScore)
        + OrZero(participations[d].handicap)
            * calculateNumberOfGames(Cardinality(DOMAIN participations))

RefIsFinalist(d) ==
    participations[d].finalsScores # Null /\ participations[d].finalsScores[1] # << >>

RefFinalsSum(d) == Sum(participations[d].finalsScores[1])

\* Place of d in a group sorted by key descending, ties in input order
\* (the input order is the order of the document ids).
RefPlaceByQual(group, d) ==
    1 + Cardinality({e \in group : RefQualScore(e) > RefQualScore(d)})
      + Cardinality({e \in group : RefQualScore(e) = RefQualScore(d) /\ e < d})

RefPlaceByFinals(group, d) ==
    1 + Cardinality({e \in group : RefFinalsSum(e) > RefFinalsSum(d)})
      + Cardinality({e \in group : RefFinalsSum(e) = RefFinalsSum(d) /\ e < d})

RefPlace(d) ==
    LET all == DOMAIN participations
        finalists == {e \in all : RefIsFinalist(e)}
    IN IF finalists = {} THEN RefPlaceByQual(all, d)
       ELSE IF d \in finalists THEN RefPlaceByFinals(finalists, d)
       ELSE Cardinality(finalists) + RefPlaceByQual(all \ finalists, d)

\* C18: the order produced by the resolver's comparator sort is the
\* reference order: without finals scores all results by qualScore
\* descending, ties in input order; otherwise the results with finals
\* scores by the sum of their finals scores descending, then the others by
\* qualScore descending, ties in input order within each group.
C18_ResolvedOrderIsReference ==
    [][\A t \in OpenTournaments :
          updateStatus(t, COMPLETED) =>
              \A d \in DOMAIN participations :
                  participations'[d].finalPosition = Some(RefPlace(d))]_vars

\* A resolved tournament with a finalist tie, a non-finalist, and a
\* handicap that decides nothing among the finalists.
C18_Witness ==
    /\ \A t \in OpenTournaments : tournaments[t].status = COMPLETED
    /\ participations[1].finalsScores = Null
    /\ participations[2].finalsScores = Some(<<50, 0>>)
    /\ participations[3].finalsScores = Some(<<50, 0>>)
    /\ participations[3].handicap = Some(5)
    /\ participations[2].handicap = Null
    /\ participations[1].totalScore = Some(130)
    /\ participations[2].finalPosition = Some(1)
    /\ participations[3].finalPosition = Some(2)
    /\ participations[1].finalPosition = Some(3)

\* The sum of the stored qualification gameScores of d (0 when none).
StoredGamesSum(d) ==
    IF participations[d].gameScores = Null THEN 0
    ELSE Sum(participations[d].gameScores[1])

\* C19: at resolution, the value by which a result is ranked in
\* qualification order equals the sum of its stored gameScores plus
\* (handicap or 0) times calculateNumberOfGames(number of participants of
\* the tournament), after any sequence of updateParticipationResult calls.
C19_RankedBySumOfGameScores ==
    [][\A t \in OpenTournaments :
          (/\ updateStatus(t, COMPLETED)
           /\ resolverCommits(participations, t, seasons[tournaments[t].seasonId].ratingConfig)) =>
              LET numberOfGames == calculateNumberOfGames(Cardinality(DocsOf(t)))
              IN \A d \in DocsOf(t) :
                    qualificationTotal(participations[d], numberOfGames)
                        = StoredGamesSum(d)
                            + OrZero(participations[d].handicap) * numberOfGames]_vars

\* num / den (den > 0) rounded to the nearest integer, halves away from zero.
RoundHalfAwayFromZero(num, den) ==
    IF num >= 0 THEN (2 * num + den) \div (2 * den)
    ELSE 0 - ((2 * (0 - num) + den) \div (2 * den))

\* C20: handicap formula and rounding. A handicap given at admission is
\* clamp(round((180 - average) / 2), -15, 15) with average = (sum of the
\* played scores) / (count of the played scores) and round rounding halves
\* away from zero, negative halves included (an average of 181 gives -1).
C20_HandicapRoundsHalfAwayFromZero ==
    \A t \in OpenTournaments : \A d \in DocsOf(t) :
        LET h == participations[d].handicap
            recent == RecentScored(participations[d].playerId)
            total == PlayedTotal(recent)
            n == PlayedGames(recent)
        IN h # Null =>
              h = Some(Max2(-15, Min2(15, RoundHalfAwayFromZero(180 * n - total, 2 * n))))

\* The results of p in COMPLETED tournaments dated strictly before the
\* given date that hold at least one played game among the first six
\* entries; of these the two most recent.
RecentPlayedBefore(p, date) ==
    LET played == {d \in CompletedResults(p) :
                      /\ participations[d].gameScores # Null
                      /\ Len(PlayedScores(participations[d].gameScores[1])) > 0
                      /\ participations[d].tournamentDate < date}
    IN {d \in played :
            Cardinality({e \in played :
                participations[e].tournamentDate > participations[d].tournamentDate}) < 2}

\* C21: handicap history selection. The handicap given at admission is
\* derived from exactly the player's two most recent COMPLETED tournaments
\* of the season that are dated strictly before the tournament entered and
\* hold at least one played game; of each the first six entries are used
\* and entries equal to 0 are dropped. With fewer than two such
\* tournaments there is no handicap.
C21_HandicapHistorySelection ==
    \A t \in OpenTournaments : \A d \in DocsOf(t) :
        LET recent == RecentPlayedBefore(participations[d].playerId, tournaments[t].date)
        IN participations[d].handicap =
              IF Cardinality(recent) < 2 THEN Null
              ELSE Some(handicapFromTotals(PlayedTotal(recent), PlayedGames(recent)))

\* C22: handicap on both admission paths. Every participation created by
\* an admin's direct add or by the approval of an application stores as
\* handicap what calculateHandicap returns for the player and the
\* tournament's season at that moment, in either backend.
C22_HandicapOnBothPaths ==
    [][\A d \in DOMAIN participations' \ DOMAIN participations :
          participations'[d].handicap =
              calculateHandicap(participations'[d].playerId, participations'[d].seasonId)]_vars

\* The results with points of player p in COMPLETED tournaments of the season.
ScoredResultsOf(seasonId, p) ==
    {d \in ScoredResults(seasonId) : participations[d].playerId = p}

RECURSIVE PointsSum(_)
PointsSum(S) ==
    IF S = {} THEN 0
    ELSE LET d == CHOOSE x \in S : TRUE
         IN participations[d].ratingPointsEarned[1] + PointsSum(S \ {d})

ResolvedOnce(docs, t) ==
    calculateAndSaveRatingPoints(docs, t, seasons[tournaments[t].seasonId].ratingConfig)

\* C24: re-resolution is idempotent. From every reachable state, a second
\* COMPLETED transition of a tournament that follows the first with no
\* change in between leaves every finalPosition and ratingPointsEarned as
\* the first run wrote them.
C24_ReResolutionIdempotent ==
    \A t \in DOMAIN tournaments :
        LET first == ResolvedOnce(participations, t)
            second == ResolvedOnce(first, t)
        IN \A d \in DOMAIN participations :
              /\ second[d].finalPosition = first[d].finalPosition
              /\ second[d].ratingPointsEarned = first[d].ratingPointsEarned

\* A tournament with two participants of different totals has been
\* resolved twice and holds the positions the resolver gives.
C24_Witness ==
    \E t \in OpenTournaments :
        /\ resolutions[t] = 2
        /\ tournaments[t].status = COMPLETED
        /\ Cardinality(DocsOf(t)) = 2
        /\ participations = ResolvedOnce(participations, t)
        /\ \E d, e \in DocsOf(t) :
              /\ participations[d].totalScore # participations[e].totalScore
              /\ participations[d].finalPosition = Some(1)
              /\ participations[e].finalPosition = Some(2)

\* C25: application status is a one-way state machine. The status of an
\* application that is APPROVED or REJECTED never changes again, and a
\* rejection that finds its application no longer PENDING creates no
\* participation and changes no counter, under any interleaving of
\* approvals and rejections of the same application.
C25_ApplicationStatusOneWay ==
    [][/\ \A a \in DOMAIN applications \cap DOMAIN applications' :
             applications[a].status # PENDING =>
                 applications'[a].status = applications[a].status
       /\ \A r \in BagToSet(inflight) :
             (/\ rejectApplicationWrites(r)
              /\ r.applicationId \in DOMAIN applications
              /\ applications[r.applicationId].status # PENDING) =>
                 UNCHANGED <<tournaments, participations>>]_vars

\* The applications of tournament t that are PENDING.
PendingOf(t) ==
    {a \in DOMAIN applications :
        applications[a].tournamentId = t /\ applications[a].status = PENDING}

\* C26: pending-application counter consistency. A tournament's
\* pendingApplicationCount equals the number of its PENDING applications
\* and is never negative, after any sequence of applications, approvals,
\* rejections and player deletions, concurrent rejections of one
\* application included.
C26_PendingCountDerived ==
    \A t \in DOMAIN tournaments :
        /\ tournaments[t].pendingApplicationCount = Cardinality(PendingOf(t))
        /\ tournaments[t].pendingApplicationCount >= 0

\* C27: capacity is never exceeded by admission. A tournament with
\* maxParticipants set never holds more participation records than
\* maxParticipants, for any sequence or interleaving of admin direct adds
\* and application approvals.
C27_CapacityNeverExceeded ==
    \A t \in DOMAIN tournaments :
        tournaments[t].maxParticipants # Null =>
            Cardinality(DocsOf(t)) <= tournaments[t].maxParticipants[1]

\* C28: at most one active season. After any sequence of season create
\* and update calls at most one season has isActive = true, also when two
\* such requests run concurrently.
C28_AtMostOneActiveSeason ==
    Cardinality({id \in DOMAIN seasons : seasons[id].isActive}) <= 1

\* C29: seasons never overlap. No two stored seasons have intersecting
\* [startDate, endDate] ranges and every season has startDate < endDate,
\* after any sequence of season create and update calls.
C29_SeasonsNeverOverlap ==
    /\ \A id \in DOMAIN seasons : seasons[id].startDate < seasons[id].endDate
    /\ \A a, b \in DOMAIN seasons :
          a # b => \/ seasons[a].endDate < seasons[b].startDate
                   \/ seasons[b].endDate < seasons[a].startDate

\* C30: season tournament counter and delete guard. A season's
\* tournamentCount equals the number of tournaments whose seasonId is that
\* season, after any sequence of tournament create, update and remove
\* calls, so that every tournament's season is stored.
C30_TournamentCountDerived ==
    /\ \A id \in DOMAIN seasons :
          seasons[id].tournamentCount =
              Cardinality({t \in DOMAIN tournaments : tournaments[t].seasonId = id})
    /\ \A t \in DOMAIN tournaments : tournaments[t].seasonId \in DOMAIN seasons

====
